---- MODULE Spec2Model ----
(***************************************************************************)
(* CalmInvestor (streamlit_app.py): the session usage guard (quota and     *)
(* cooldown), the advice client get_ai_advice, the market fetch            *)
(* get_stock_data and the two button handlers that call them.              *)
(*                                                                         *)
(* Time is counted in ticks of 1/TicksPerSec second, so that fractional    *)
(* seconds of time.time() are represented exactly.                         *)
(***************************************************************************)
EXTENDS Integers, Sequences, FiniteSets, TLC

\* ------------------------------------------------------------------------
\* Program constants
\* ------------------------------------------------------------------------
FREE_QUESTIONS_PER_SESSION == 3

COOLDOWN_SECONDS == 10

\* ------------------------------------------------------------------------
\* Bounds of the model
\* ------------------------------------------------------------------------
\* clock resolution: ticks per second
TicksPerSec == 2

\* seconds of session time explored after the session starts
MaxSeconds == 31

\* longest duration of one completion request, in ticks
MaxLatency == 1

\* seconds of session time explored when requests interleave
MaxRaceSeconds == 31

\* ------------------------------------------------------------------------
\* Time
\* ------------------------------------------------------------------------
\* COOLDOWN_SECONDS in ticks
Cooldown == COOLDOWN_SECONDS * TicksPerSec

\* time.time() when the session starts: the wall clock is (far) more than
\* COOLDOWN_SECONDS past the epoch, the initial last_question_time
StartTime == Cooldown

MaxTime == StartTime + MaxSeconds * TicksPerSec

MaxRaceTime == StartTime + MaxRaceSeconds * TicksPerSec

\* ------------------------------------------------------------------------
\* Strings: a string is a sequence of tokens; the first token of a message
\* of the program is its leading glyph.
\* ------------------------------------------------------------------------
startswith(s, prefix) == Len(s) >= 1 /\ s[1] = prefix

\* Python values returned by get_ai_advice: None or a str
None == [none |-> TRUE, text |-> <<>>]

Str(s) == [none |-> FALSE, text |-> s]

\* truthiness of an optional string: None and "" are falsy
truthy(a) == ~a.none /\ a.text # <<>>

WaitMessage(wait_time) ==
    <<"HOURGLASS", "Please wait", ToString(wait_time),
      "seconds before asking another question.">>

NoKeyMessage == <<"WARNING", "API key not configured. Please contact support.">>

ErrorMessage == <<"WARNING", "Error getting advice:", "str(e)">>

\* ------------------------------------------------------------------------
\* Completion service: what client.messages.create can do
\* ------------------------------------------------------------------------
\* the content list of a returned message: no block, or one text block
Contents ==
    { <<>>,
      << <<"calm advice">> >>,
      << <<>> >>,
      << <<"WARNING", "markets are volatile">> >>,
      << <<"HOURGLASS", "give it time">> >> }

Responses ==
    {[raised |-> TRUE, content |-> <<>>]}
      \cup {[raised |-> FALSE, content |-> c] : c \in Contents}

\* ------------------------------------------------------------------------
\* Session usage guard
\* ------------------------------------------------------------------------
check_usage_limit_off_by_one(qc) == ~(qc > FREE_QUESTIONS_PER_SESSION)

check_usage_limit(qc) == ~(qc >= FREE_QUESTIONS_PER_SESSION)

check_rate_limit_inclusive(t, lqt) ==
    LET time_since_last == t - lqt
    IN  IF time_since_last <= Cooldown
        THEN <<FALSE, (Cooldown - time_since_last) \div TicksPerSec>>
        ELSE <<TRUE, 0>>

check_rate_limit_short(t, lqt) ==
    LET time_since_last == t - lqt
    IN  IF time_since_last < Cooldown - 1
        THEN <<FALSE, (Cooldown - time_since_last) \div TicksPerSec>>
        ELSE <<TRUE, 0>>

\* int() truncates; COOLDOWN_SECONDS - time_since_last is positive here
check_rate_limit(t, lqt) ==
    LET time_since_last == t - lqt
    IN  IF time_since_last < Cooldown
        THEN <<FALSE, (Cooldown - time_since_last) \div TicksPerSec>>
        ELSE <<TRUE, 0>>

update_tracking_keep_time(qc, lqt, t) == [qc |-> qc + 1, lqt |-> lqt]

\* question_count += 1; last_question_time = time.time()
update_tracking(qc, lqt, t) == [qc |-> qc + 1, lqt |-> t]

\* ------------------------------------------------------------------------
\* get_ai_advice: the checks before the completion request
\* ------------------------------------------------------------------------
advice_gate_key_first(qc, lqt, t, key) ==
    IF ~key THEN "Misconfigured"
    ELSE IF ~check_usage_limit(qc) THEN "QuotaExceeded"
    ELSE IF ~check_rate_limit(t, lqt)[1] THEN "CooldownActive"
    ELSE "Call"

advice_gate_cooldown_first(qc, lqt, t, key) ==
    IF ~check_rate_limit(t, lqt)[1] THEN "CooldownActive"
    ELSE IF ~check_usage_limit(qc) THEN "QuotaExceeded"
    ELSE IF ~key THEN "Misconfigured"
    ELSE "Call"

advice_gate(qc, lqt, t, key) ==
    IF ~check_usage_limit(qc) THEN "QuotaExceeded"
    ELSE IF ~check_rate_limit(t, lqt)[1] THEN "CooldownActive"
    ELSE IF ~key THEN "Misconfigured"
    ELSE "Call"

\* the whole call: qc, lqt the session state, t the time at entry, key whether
\* ANTHROPIC_API_KEY is set, resp what the service does, lat how long it takes
get_ai_advice(qc, lqt, t, key, resp, lat) ==
    LET gate == advice_gate(qc, lqt, t, key)
        rejected(outcome, ret, w) ==
            [outcome |-> outcome, ret |-> ret, sent |-> FALSE, wait |-> w,
             qc |-> qc, lqt |-> lqt, t_end |-> t]
    IN  CASE gate = "QuotaExceeded" -> rejected("QuotaExceeded", None, 0)
          [] gate = "CooldownActive" ->
                LET w == check_rate_limit(t, lqt)[2]
                IN  rejected("CooldownActive", Str(WaitMessage(w)), w)
          [] gate = "Misconfigured" ->
                rejected("Misconfigured", Str(NoKeyMessage), 0)
          [] gate = "Call" ->
                \* constructing the client or the request itself raises
                IF resp.raised
                THEN [outcome |-> "UpstreamError", ret |-> Str(ErrorMessage),
                      sent |-> TRUE, wait |-> 0,
                      qc |-> qc, lqt |-> lqt, t_end |-> t + lat]
                ELSE LET upd == update_tracking(qc, lqt, t + lat)
                     IN  [outcome |-> "Granted",
                          \* message.content[0].text: an empty content list
                          \* raises inside the try, after the update
                          ret |-> IF resp.content = <<>>
                                  THEN Str(ErrorMessage)
                                  ELSE Str(resp.content[1]),
                          sent |-> TRUE, wait |-> 0,
                          qc |-> upd.qc, lqt |-> upd.lqt, t_end |-> t + lat]

\* ------------------------------------------------------------------------
\* Presentation of an advice result (both tabs use the same test)
\* ------------------------------------------------------------------------
is_success_no_warning_test(advice) ==
    truthy(advice) /\ ~startswith(advice.text, "HOURGLASS")

is_success(advice) ==
    /\ truthy(advice)
    /\ ~startswith(advice.text, "HOURGLASS")
    /\ ~startswith(advice.text, "WARNING")

\* ------------------------------------------------------------------------
\* Market fetch
\* ------------------------------------------------------------------------
\* stock.history(...): raises, returns an empty frame, a frame without the
\* expected columns, or a usable frame
Histories == {"raise", "empty", "malformed", "ok"}

\* stock.info: raises or returns the metadata
Infos == {"raise", "ok"}

get_stock_data_info_unguarded(hist, info) ==
    IF hist = "raise" THEN [result |-> "None", queries |-> 1]
    ELSE IF hist = "empty" THEN [result |-> "None", queries |-> 1]
    ELSE IF info = "raise" THEN [result |-> "raised", queries |-> 1]
    ELSE IF hist = "malformed" THEN [result |-> "None", queries |-> 1]
    ELSE [result |-> "data", queries |-> 1]

\* result: "None", "data" (the summary dict) or "raised" (an exception
\* leaves the function); queries: calls of stock.history
get_stock_data(hist, info) ==
    IF hist = "raise" THEN [result |-> "None", queries |-> 1]
    ELSE IF hist = "empty" THEN [result |-> "None", queries |-> 1]
    ELSE IF info = "raise" THEN [result |-> "None", queries |-> 1]
    ELSE IF hist = "malformed" THEN [result |-> "None", queries |-> 1]
    ELSE [result |-> "data", queries |-> 1]

\* ------------------------------------------------------------------------
\* State
\* ------------------------------------------------------------------------
VARIABLES
    question_count,      \* st.session_state.question_count
    last_question_time,  \* st.session_state.last_question_time (ticks)
    now,                 \* time.time() (ticks)
    api_key,             \* whether os.environ holds ANTHROPIC_API_KEY
    btn1_enabled,        \* "Get Calm Advice" as last rendered in the browser
    btn2_enabled,        \* "Check Stock" as last rendered in the browser
    run,                 \* what the script run of the latest step did
    pc,                  \* interleaved requests: position of each request
    loaded,              \* interleaved requests: question_count as read by +=
    overlapped,          \* history: a request passed its checks while another
                         \* was between its checks and its update
    pass_time,           \* history: when a request last passed its checks,
                         \* if less than Cooldown ago; otherwise -1
    close_passes         \* history: two requests passed their checks less
                         \* than Cooldown apart

vars == <<question_count, last_question_time, now, api_key, btn1_enabled,
          btn2_enabled, run, pc, loaded, overlapped, pass_time, close_passes>>

\* the variables only interleaved requests change
race_vars == <<pc, loaded, overlapped, pass_time, close_passes>>

\* interleaved requests of one session
Requests == {"r1", "r2"}

\* no script run in this step
NoRun ==
    [tab |-> "none", outcome |-> "none", ret |-> None, render |-> "none",
     sent |-> FALSE, wait |-> 0, key |-> FALSE, qc_before |-> 0,
     lqt_before |-> 0, t_check |-> 0,
     stock |-> "none", queries |-> 0]

Init ==
    /\ question_count = 0
    /\ last_question_time = 0
    /\ now = StartTime
    /\ api_key \in BOOLEAN
    /\ btn1_enabled = TRUE
    /\ btn2_enabled = TRUE
    /\ run = NoRun
    /\ pc = [r \in Requests |-> "idle"]
    /\ loaded = [r \in Requests |-> 0]
    /\ overlapped = FALSE
    /\ pass_time = -1
    /\ close_passes = FALSE

\* ------------------------------------------------------------------------
\* Steps of a session whose script runs one at a time
\* ------------------------------------------------------------------------
\* the wall clock advances
Tick ==
    /\ now < MaxTime
    /\ now' = now + 1
    /\ run' = NoRun
    /\ UNCHANGED <<question_count, last_question_time, api_key, btn1_enabled,
                   btn2_enabled, race_vars>>

\* the deployment sets or removes ANTHROPIC_API_KEY; it is read on each request
SetApiKey ==
    /\ api_key' = ~api_key
    /\ run' = NoRun
    /\ UNCHANGED <<question_count, last_question_time, now, btn1_enabled,
                   btn2_enabled, race_vars>>

\* the record of a script run that called get_ai_advice with result a
AdviceRun(tab, a, stock, queries) ==
    [tab |-> tab, outcome |-> a.outcome, ret |-> a.ret,
     render |-> IF is_success(a.ret) THEN "success" ELSE "warning",
     sent |-> a.sent, wait |-> a.wait, key |-> api_key,
     qc_before |-> question_count, lqt_before |-> last_question_time,
     t_check |-> now,
     stock |-> stock, queries |-> queries]

\* the record of a script run that did not call get_ai_advice
PlainRun(tab, render, stock, queries) ==
    [NoRun EXCEPT !.tab = tab, !.render = render, !.key = api_key,
                  !.qc_before = question_count,
                  !.lqt_before = last_question_time, !.t_check = now,
                  !.stock = stock, !.queries = queries]

\* the session state and the clock after get_ai_advice returned a
AfterAdvice(a) ==
    /\ question_count' = a.qc
    /\ last_question_time' = a.lqt
    /\ now' = a.t_end

\* a script run triggered by any other widget: both buttons are rendered anew
Rerun ==
    /\ btn1_enabled' = check_usage_limit(question_count)
    /\ btn2_enabled' = check_usage_limit(question_count)
    /\ run' = PlainRun("rerun", "none", "none", 0)
    /\ UNCHANGED <<question_count, last_question_time, now, api_key,
                   race_vars>>

\* "Get Calm Advice" is pressed; portfolio_input / user_question: whether the
\* text areas hold text
GetCalmAdvice(portfolio_input, user_question, resp, lat) ==
    /\ btn1_enabled
    /\ now + lat <= MaxTime
    /\ btn1_enabled' = check_usage_limit(question_count)
    /\ IF ~portfolio_input \/ ~user_question
       THEN /\ run' = PlainRun("ask", "warning", "none", 0)
            /\ UNCHANGED <<question_count, last_question_time, now>>
       ELSE LET a == get_ai_advice(question_count, last_question_time, now,
                                   api_key, resp, lat)
            IN  /\ AfterAdvice(a)
                /\ run' = AdviceRun("ask", a, "none", 0)
    \* the second tab's button is rendered after the handler has run
    /\ btn2_enabled' = check_usage_limit(question_count')
    /\ UNCHANGED <<api_key, race_vars>>

\* "Check Stock" is pressed; ticker / portfolio_input: whether the inputs
\* hold text
CheckStock(ticker, portfolio_input, hist, info, resp, lat) ==
    /\ btn2_enabled
    /\ now + lat <= MaxTime
    /\ btn1_enabled' = check_usage_limit(question_count)
    /\ btn2_enabled' = check_usage_limit(question_count)
    /\ IF ~ticker
       THEN /\ run' = PlainRun("stock", "none", "none", 0)
            /\ UNCHANGED <<question_count, last_question_time, now>>
       ELSE LET sd == get_stock_data(hist, info)
            IN  IF sd.result = "raised"
                THEN /\ run' = PlainRun("stock", "exception", sd.result,
                                        sd.queries)
                     /\ UNCHANGED <<question_count, last_question_time, now>>
                ELSE IF sd.result = "None"
                THEN /\ run' = PlainRun("stock", "error", sd.result,
                                        sd.queries)
                     /\ UNCHANGED <<question_count, last_question_time, now>>
                ELSE IF ~portfolio_input
                THEN /\ run' = PlainRun("stock", "warning", sd.result,
                                        sd.queries)
                     /\ UNCHANGED <<question_count, last_question_time, now>>
                ELSE LET a == get_ai_advice(question_count,
                                            last_question_time, now, api_key,
                                            resp, lat)
                     IN  /\ AfterAdvice(a)
                         /\ run' = AdviceRun("stock", a, sd.result,
                                             sd.queries)
    /\ UNCHANGED <<api_key, race_vars>>

Latencies == 0 .. MaxLatency

\* a response and a latency for the runs that never reach the service
Unused == <<[raised |-> TRUE, content |-> <<>>], 0>>

\* what the completion service can do in the current state: it acts only when
\* a request would pass the checks of get_ai_advice
Service ==
    IF advice_gate(question_count, last_question_time, now, api_key) = "Call"
    THEN Responses \X Latencies
    ELSE {Unused}

\* inputs of "Get Calm Advice": <<portfolio_input, user_question, resp, lat>>;
\* the service is enumerated only when both texts are given
AskInputs ==
    {<<p, q, Unused[1], Unused[2]>> :
        <<p, q>> \in {<<FALSE, FALSE>>, <<FALSE, TRUE>>, <<TRUE, FALSE>>}}
      \cup {<<TRUE, TRUE, sv[1], sv[2]>> : sv \in Service}

\* inputs of "Check Stock": <<ticker, portfolio_input, hist, info, resp, lat>>;
\* the market service is enumerated only when a ticker is given, and the
\* completion service only when the fetch succeeds and a portfolio is given
StockInputs ==
    {<<FALSE, p, "ok", "ok", Unused[1], Unused[2]>> : p \in BOOLEAN}
      \cup {<<TRUE, p, hist, info, Unused[1], Unused[2]>> :
              p \in BOOLEAN, hist \in Histories, info \in Infos}
      \cup {<<TRUE, TRUE, "ok", "ok", sv[1], sv[2]>> : sv \in Service}

Next ==
    \/ Tick
    \/ SetApiKey
    \/ Rerun
    \/ \E i \in AskInputs : GetCalmAdvice(i[1], i[2], i[3], i[4])
    \/ \E i \in StockInputs : CheckStock(i[1], i[2], i[3], i[4], i[5], i[6])

Spec == Init /\ [][Next]_vars

\* ------------------------------------------------------------------------
\* Interleaved requests of one session: get_ai_advice run by several requests
\* at once, with no lock; each request takes the steps of the function body
\* one at a time.
\* ------------------------------------------------------------------------
\* whether some request other than r is between its checks and its update
OtherInFlight(r) == \E o \in Requests \ {r} : pc[o] # "idle"

\* the wall clock advances; interleavings are explored at whole seconds, the
\* quota and the cooldown of interleaved requests not depending on fractions
RaceTick ==
    /\ now + TicksPerSec <= MaxRaceTime
    /\ now' = now + TicksPerSec
    /\ pass_time' = IF pass_time >= 0 /\ now' - pass_time < Cooldown
                    THEN pass_time ELSE -1
    /\ UNCHANGED <<question_count, last_question_time, api_key, btn1_enabled,
                   btn2_enabled, run, pc, loaded, overlapped, close_passes>>

\* the checks of usage limit, rate limit and API key
RCheck(r) ==
    /\ pc[r] = "idle"
    /\ IF advice_gate(question_count, last_question_time, now, api_key) = "Call"
       THEN /\ pc' = [pc EXCEPT ![r] = "calling"]
            /\ overlapped' = (overlapped \/ OtherInFlight(r))
            /\ close_passes' = (close_passes
                                \/ pass_time >= 0)
            /\ pass_time' = now
       ELSE UNCHANGED <<pc, overlapped, close_passes, pass_time>>
    /\ UNCHANGED <<question_count, last_question_time, now, api_key,
                   btn1_enabled, btn2_enabled, run, loaded>>

\* client.messages.create returns or raises
RCall(r, resp) ==
    /\ pc[r] = "calling"
    /\ pc' = [pc EXCEPT ![r] = IF resp.raised THEN "idle" ELSE "load"]
    /\ UNCHANGED <<question_count, last_question_time, now, api_key,
                   btn1_enabled, btn2_enabled, run, loaded, overlapped,
                   pass_time, close_passes>>

\* question_count += 1, the read
RLoad(r) ==
    /\ pc[r] = "load"
    /\ loaded' = [loaded EXCEPT ![r] = question_count]
    /\ pc' = [pc EXCEPT ![r] = "store"]
    /\ UNCHANGED <<question_count, last_question_time, now, api_key,
                   btn1_enabled, btn2_enabled, run, overlapped, pass_time,
                   close_passes>>

\* question_count += 1, the write
RStore(r) ==
    /\ pc[r] = "store"
    /\ question_count' = update_tracking(loaded[r], last_question_time, now).qc
    /\ loaded' = [loaded EXCEPT ![r] = 0]
    /\ pc' = [pc EXCEPT ![r] = "stamp"]
    /\ UNCHANGED <<last_question_time, now, api_key, btn1_enabled,
                   btn2_enabled, run, overlapped, pass_time, close_passes>>

\* last_question_time = time.time()
RStamp(r) ==
    /\ pc[r] = "stamp"
    /\ last_question_time' =
          update_tracking(question_count, last_question_time, now).lqt
    /\ pc' = [pc EXCEPT ![r] = "idle"]
    /\ UNCHANGED <<question_count, now, api_key, btn1_enabled, btn2_enabled,
                   run, loaded, overlapped, pass_time, close_passes>>

NextRace ==
    \/ RaceTick
    \/ \E r \in Requests : RCheck(r)
    \/ \E r \in Requests, resp \in Responses : RCall(r, resp)
    \/ \E r \in Requests : RLoad(r)
    \/ \E r \in Requests : RStore(r)
    \/ \E r \in Requests : RStamp(r)

SpecRace == Init /\ [][NextRace]_vars

\* ------------------------------------------------------------------------
\* Properties
\* ------------------------------------------------------------------------
\* the latest step was a script run that called get_ai_advice
AdviceRequested == run.outcome # "none"

\* time between the last recorded call and the entry of the latest request
Elapsed == run.t_check - run.lqt_before

UsageUnchangedByRun ==
    /\ question_count = run.qc_before
    /\ last_question_time = run.lqt_before

CeilDiv(a, b) == -((-a) \div b)

Max(a, b) == IF a > b THEN a ELSE b

\* C1: in a session whose requests run one at a time, question_count stays
\* within 0..FREE_QUESTIONS_PER_SESSION, and no call is granted when
\* question_count is already at the limit.
C1_QuotaNeverExceeded ==
    /\ question_count \in 0 .. FREE_QUESTIONS_PER_SESSION
    /\ run.outcome = "Granted" => run.qc_before < FREE_QUESTIONS_PER_SESSION

\* a request was made with the quota used up, and was not granted
C1_Witness ==
    /\ run.outcome = "QuotaExceeded"
    /\ question_count = FREE_QUESTIONS_PER_SESSION

\* C2 (as stated): with the API key absent every advice request yields
\* Misconfigured and issues no completion request, whatever the quota and
\* cooldown state.
C2_AlwaysMisconfigured ==
    (AdviceRequested /\ ~run.key) =>
        (run.outcome = "Misconfigured" /\ ~run.sent)

\* C2 (amended): with the API key absent no advice request issues a completion
\* request or changes the usage state; the outcome is QuotaExceeded when
\* question_count has reached the limit, else CooldownActive within the
\* cooldown, and Misconfigured only when quota remains and the cooldown has
\* elapsed.
C2_MisconfiguredAfterGuards ==
    (AdviceRequested /\ ~run.key) =>
        /\ ~run.sent
        /\ UsageUnchangedByRun
        /\ run.outcome =
             IF run.qc_before >= FREE_QUESTIONS_PER_SESSION
             THEN "QuotaExceeded"
             ELSE IF Elapsed < Cooldown THEN "CooldownActive"
             ELSE "Misconfigured"

\* the key is absent after calls were granted, and the request passes both
\* guards
C2_Witness ==
    /\ run.outcome = "Misconfigured"
    /\ ~run.key
    /\ run.qc_before = 2

\* C3: once FREE_QUESTIONS_PER_SESSION calls are recorded, every advice request
\* returns None (QuotaExceeded) without a completion request and without
\* touching the usage state, whether or not the cooldown has expired and
\* whether or not the API key is set: the quota check comes first.
C3_QuotaExceededFirst ==
    (AdviceRequested /\ run.qc_before >= FREE_QUESTIONS_PER_SESSION) =>
        /\ run.outcome = "QuotaExceeded"
        /\ run.ret = None
        /\ ~run.sent
        /\ UsageUnchangedByRun

\* a request after the quota is used up, with the cooldown expired and the key
\* set
C3_Witness ==
    /\ run.outcome = "QuotaExceeded"
    /\ run.key
    /\ Elapsed >= Cooldown

\* C4 (as stated): the cooldown check lets a request proceed iff
\* elapsed >= COOLDOWN_SECONDS and otherwise reports
\* waitSeconds = max(0, ceil(COOLDOWN_SECONDS - elapsed)), which is at least 1.
C4_WaitIsCeiling ==
    /\ run.outcome = "CooldownActive" =>
          /\ Elapsed < Cooldown
          /\ run.wait = Max(0, CeilDiv(Cooldown - Elapsed, TicksPerSec))
          /\ run.wait >= 1
    /\ run.outcome \in {"Misconfigured", "UpstreamError", "Granted"} =>
          Elapsed >= Cooldown

\* C5: after a recorded call, with quota remaining, the cooldown check at the
\* same instant reports (False, COOLDOWN_SECONDS); a request less than
\* COOLDOWN_SECONDS after it yields CooldownActive without a completion
\* request (5 seconds after: wait 5); a request COOLDOWN_SECONDS or more after
\* it, with the key set, is sent, and is granted unless the service fails.
C5_CooldownAfterGrant ==
    /\ (question_count > 0 /\ check_usage_limit(question_count)
          /\ now = last_question_time) =>
          check_rate_limit(now, last_question_time) = <<FALSE, COOLDOWN_SECONDS>>
    /\ (AdviceRequested /\ run.qc_before > 0
          /\ run.qc_before < FREE_QUESTIONS_PER_SESSION) =>
          /\ Elapsed < Cooldown =>
                /\ run.outcome = "CooldownActive"
                /\ ~run.sent
                /\ UsageUnchangedByRun
                /\ Elapsed = 5 * TicksPerSec => run.wait = 5
          /\ (Elapsed >= Cooldown /\ run.key) =>
                /\ run.sent
                /\ run.outcome \in {"Granted", "UpstreamError"}

\* a request exactly 5 seconds after a recorded call
C5_Witness ==
    /\ run.outcome = "CooldownActive"
    /\ run.qc_before > 0
    /\ Elapsed = 5 * TicksPerSec
    /\ run.wait = 5

\* C6: the usage state changes only by a granted call, which adds exactly 1 to
\* question_count and sets last_question_time to the time at which the
\* completion request has returned; every other step, and so every rejected or
\* failed request, leaves both unchanged; question_count never decreases.
C6_UsageChangesOnlyOnGrant ==
    [][ /\ question_count' >= question_count
        /\ (AdviceRequested' /\ run'.outcome # "Granted") =>
              UNCHANGED <<question_count, last_question_time>>
        /\ <<question_count, last_question_time>>'
              # <<question_count, last_question_time>> =>
              /\ run'.outcome = "Granted"
              /\ run'.sent
              /\ run'.qc_before = question_count
              /\ question_count' = question_count + 1
              /\ last_question_time' = now'
              /\ run'.t_check = now ]_vars

\* a granted call whose completion request took time: the timestamp is the
\* time of the return
C6_Witness ==
    /\ run.outcome = "Granted"
    /\ question_count = run.qc_before + 1
    /\ last_question_time = now
    /\ run.t_check < now

\* C7: with interleaved requests and no lock, question_count can exceed
\* FREE_QUESTIONS_PER_SESSION and two requests can pass the cooldown check less
\* than COOLDOWN_SECONDS apart; as long as no request passes its checks while
\* another is between its checks and its update (check and record atomic),
\* question_count stays within the limit.
C7_AtomicKeepsQuota ==
    ~overlapped => question_count <= FREE_QUESTIONS_PER_SESSION

\* the race: the quota is exceeded after two requests passed the checks less
\* than COOLDOWN_SECONDS apart
C7_Witness ==
    /\ question_count > FREE_QUESTIONS_PER_SESSION
    /\ close_passes

\* C8: get_stock_data returns None when the history is empty or any step of
\* the lookup fails, lets no exception out and queries the market once; on
\* None the Check Stock run issues no completion request and leaves the usage
\* state unchanged.
C8_NoDataIsTerminal ==
    /\ \A hist \in Histories, info \in Infos :
          /\ get_stock_data(hist, info).result \in {"None", "data"}
          /\ get_stock_data(hist, info).queries = 1
          /\ (hist # "ok" \/ info # "ok") =>
                get_stock_data(hist, info).result = "None"
    /\ run.stock # "raised"
    /\ run.render # "exception"
    /\ (run.tab = "stock" /\ run.stock = "None") =>
          /\ run.queries = 1
          /\ run.render = "error"
          /\ ~AdviceRequested
          /\ ~run.sent
          /\ UsageUnchangedByRun

\* a Check Stock run without market data, in a session that has used quota
C8_Witness ==
    /\ run.tab = "stock"
    /\ run.stock = "None"
    /\ run.render = "error"
    /\ question_count > 0

\* C9 (as stated): two requests that passed the checks and were sent to the
\* completion service, whether the service answered or failed, are at least
\* COOLDOWN_SECONDS apart; stated for the requests of two successive script
\* runs.
C9_SentRequestsApart ==
    [][ (run.sent /\ run'.sent) =>
            run'.t_check - run.t_check >= Cooldown ]_vars

\* C9 (amended): a request is sent to the completion service only
\* COOLDOWN_SECONDS or more after the last recorded call (one whose completion
\* request returned), so two recorded calls are at least COOLDOWN_SECONDS
\* apart; a request whose completion request raised starts no cooldown.
C9_RecordedCallsApart ==
    (run.sent /\ run.qc_before > 0) =>
        /\ Elapsed >= Cooldown
        /\ run.outcome = "Granted" =>
              last_question_time - run.lqt_before >= Cooldown

\* a second call granted exactly COOLDOWN_SECONDS after the first was recorded
C9_Witness ==
    /\ run.outcome = "Granted"
    /\ run.qc_before = 1
    /\ Elapsed = Cooldown

\* C10: in both tabs a result rendered in the success style comes from a
\* granted call that added exactly 1 to question_count in the same run; a
\* quota-exceeded, cooldown, missing-key or upstream-error result is rendered
\* as a warning.
C10_SuccessMeansGranted ==
    /\ run.render = "success" =>
          /\ run.tab \in {"ask", "stock"}
          /\ run.outcome = "Granted"
          /\ run.sent
          /\ question_count = run.qc_before + 1
    /\ run.outcome \in {"QuotaExceeded", "CooldownActive", "Misconfigured",
                        "UpstreamError"} =>
          run.render = "warning"

\* the analysis of a stock rendered in the success style
C10_Witness ==
    /\ run.render = "success"
    /\ run.tab = "stock"
    /\ question_count = FREE_QUESTIONS_PER_SESSION

====
